---- MODULE Spec2Model ----
(***************************************************************************)
(* Team-balancing engine of VTeam (services/TeamGenerationService.ts) and  *)
(* the reshuffle path of GeneratedTeamsScreen.                             *)
(*                                                                         *)
(* Numbers.  Skill ratings are integers.  A weight is held in hundredths   *)
(* (0.15 is 15), so a player score is held in hundredths too and all       *)
(* sums and comparisons are exact.  A skill average is the exact fraction  *)
(* sum / count, held in lowest terms as <<numerator, denominator>>.        *)
(* Array.prototype.sort is taken to be stable (ES2019).                    *)
(* playerName and photo of a slot are carried along by the code and never  *)
(* read; they are left out of a slot.                                      *)
(***************************************************************************)
EXTENDS Integers, Sequences, FiniteSets

\* ------------------------------------------------------------------ bounds

\* Longest player list handed to generateTeams.
MaxPlayers == 5
\* Largest numberOfTeams.
MaxTeams == 2
\* Largest playersPerTeam a caller passes.
MaxPerTeam == 2
\* Most slots locked in an assignment handed to the optimizer.
MaxLocked == 1
\* Pass cap of the optimizer.  The source sets 200; the model runs the same
\* guard with a cap small enough for the cap exit to be reached.
MAX_ITERATIONS == 2

\* reshuffles a screen is taken through
MaxReshuffles == 2

TIME_LIMIT_MS == 200

\* ------------------------------------------------------------ skill records

SkillNames == {"serve", "set", "block", "receive", "attack", "defense"}

Uniform(v) == [k \in SkillNames |-> v]

DEFAULT_WEIGHTS ==
  [serve |-> 15, set |-> 15, block |-> 15, receive |-> 15, attack |-> 25, defense |-> 15]

getEmptySkillAverages == [k \in SkillNames |-> <<0, 1>>]

RECURSIVE SumOver(_, _)
\* sum of f[k] over the finite set S
SumOver(f, S) ==
  IF S = {} THEN 0
  ELSE LET k == CHOOSE x \in S : TRUE IN f[k] + SumOver(f, S \ {k})

RECURSIVE Gcd(_, _)
Gcd(a, b) == IF b = 0 THEN a ELSE Gcd(b, a % b)

\* the quotient sum / n of the code, n > 0, as a fraction in lowest terms
Mean(sum, n) ==
  LET g == Gcd(sum, n) IN <<sum \div g, n \div g>>

\* player.serve * weights.serve + ... + player.defense * weights.defense
calculatePlayerScore(player, weights) ==
  SumOver([k \in SkillNames |-> player[k] * weights[k]], SkillNames)

\* ------------------------------------------------------------------ sorting

\* Array.prototype.sort with a comparator that is the difference of two keys,
\* key[n] the key of s[n]: a stable sort, so an element is preceded by the
\* elements of smaller key and by those of equal key that stood before it
SortByKey(s, key) ==
  LET precedes(m, n) == key[m] < key[n] \/ (key[m] = key[n] /\ m < n)
      rank(n) == Cardinality({ m \in 1..Len(s) : precedes(m, n) }) + 1
  IN [k \in 1..Len(s) |-> s[CHOOSE n \in 1..Len(s) : rank(n) = k]]

\* the keys of the comparator (a, b) => b.totalScore - a.totalScore
ScoreDescending(s) == [n \in 1..Len(s) |-> 0 - s[n].totalScore]
\* the keys of the comparator (a, b) => a.totalScore - b.totalScore
ScoreAscending(s) == [n \in 1..Len(s) |-> s[n].totalScore]

\* ------------------------------------------------- subset selector, scoring

RECURSIVE SumSeq(_)
SumSeq(s) == IF s = <<>> THEN 0 ELSE Head(s) + SumSeq(Tail(s))

\* the sum of one skill over a sequence of slots
SkillSum(slots, k) == SumSeq([n \in 1..Len(slots) |-> slots[n].skills[k]])

\* (sum over skills of average * weight) * length; the division by the length
\* and the multiplication by it cancel, the value is held in hundredths
calculateSubsetScore(slots, weights) ==
  IF Len(slots) = 0 THEN 0
  ELSE SumOver([k \in SkillNames |-> SkillSum(slots, k) * weights[k]], SkillNames)

RECURSIVE BestWindow_UpToLast(_, _, _, _, _)
\* BestWindow with <= for <: the loop also reaches the window of the six
\* highest scores
BestWindow_UpToLast(sortedPlayers, weights, i, bestSubset, bestScore) ==
  IF ~(i <= Len(sortedPlayers) - 6) THEN bestSubset
  ELSE LET subset == SubSeq(sortedPlayers, i + 1, i + 6)
           score == calculateSubsetScore(subset, weights)
       IN IF score > bestScore
          THEN BestWindow_UpToLast(sortedPlayers, weights, i + 1, subset, score)
          ELSE BestWindow_UpToLast(sortedPlayers, weights, i + 1, bestSubset, bestScore)

RECURSIVE BestWindow(_, _, _, _, _)
\* the loop "for (i = 0; i < players.length - 6; i++)" from index i on (0-based)
BestWindow(sortedPlayers, weights, i, bestSubset, bestScore) ==
  IF ~(i < Len(sortedPlayers) - 6) THEN bestSubset
  ELSE LET subset == SubSeq(sortedPlayers, i + 1, i + 6)
           score == calculateSubsetScore(subset, weights)
       IN IF score > bestScore
          THEN BestWindow(sortedPlayers, weights, i + 1, subset, score)
          ELSE BestWindow(sortedPlayers, weights, i + 1, bestSubset, bestScore)

getBest6PlayerSubset(slots, weights) ==
  IF Len(slots) <= 6 THEN slots
  ELSE LET first6 == SubSeq(slots, 1, 6)
       IN BestWindow(SortByKey(slots, ScoreAscending(slots)), weights, 0,
                     first6, calculateSubsetScore(first6, weights))

\* the slots a team is scored over
effectivePlayers(slots, weights) ==
  IF Len(slots) >= 7 THEN getBest6PlayerSubset(slots, weights) ELSE slots

\* updateTeamScores that also cuts the roster down to the slots it scored
updateTeamScores_KeepsScored(team, weights) ==
  IF Len(team.players) = 0
  THEN [team EXCEPT !.totalScore = 0, !.skillAverages = getEmptySkillAverages]
  ELSE LET eff == effectivePlayers(team.players, weights)
       IN [team EXCEPT
             !.players = eff,
             !.totalScore = SumSeq([n \in 1..Len(eff) |-> eff[n].totalScore]),
             !.skillAverages = [k \in SkillNames |-> Mean(SkillSum(eff, k), Len(eff))]]

\* the team with totalScore and skillAverages recomputed from its roster
updateTeamScores(team, weights) ==
  IF Len(team.players) = 0
  THEN [team EXCEPT !.totalScore = 0, !.skillAverages = getEmptySkillAverages]
  ELSE LET eff == effectivePlayers(team.players, weights)
       IN [team EXCEPT
             !.totalScore = SumSeq([n \in 1..Len(eff) |-> eff[n].totalScore]),
             !.skillAverages = [k \in SkillNames |-> Mean(SkillSum(eff, k), Len(eff))]]

RECURSIVE SeqMax(_)
SeqMax(s) ==
  IF Len(s) = 1 THEN s[1]
  ELSE LET m == SeqMax(Tail(s)) IN IF s[1] > m THEN s[1] ELSE m

RECURSIVE SeqMin(_)
SeqMin(s) ==
  IF Len(s) = 1 THEN s[1]
  ELSE LET m == SeqMin(Tail(s)) IN IF s[1] < m THEN s[1] ELSE m

\* max team totalScore - min team totalScore, 0 with fewer than two teams
calculateTotalScoreDifference(ts) ==
  IF Len(ts) < 2 THEN 0
  ELSE LET scores == [n \in 1..Len(ts) |-> ts[n].totalScore]
       IN SeqMax(scores) - SeqMin(scores)

\* -------------------------------------------------------------------- state

VARIABLES
  pc,                  \* where the call in progress stands
  caller,              \* who called optimizeTeamBalance
  players,             \* generateTeams: the caller's Player array
  numberOfTeams,       \* generateTeams argument
  playersPerTeam,      \* generateTeams argument, 0 when not given
  skillWeights,        \* generateTeams argument: <<>> when not given, else <<w>>
  randomSeed,          \* generateTeams argument
  weights,             \* the weights in use
  playersWithScores,   \* available players with totalScore, sorted
  playerIndex,         \* assignPlayersSnakeDraft: players placed so far
  forward,             \* assignPlayersSnakeDraft: direction of the next pass
  teams,               \* the TeamMatch array
  iterations,          \* optimizeTeamBalance
  bestScoreDifference, \* optimizeTeamBalance
  improved,            \* optimizeTeamBalance
  scan,                \* optimizeTeamBalance: <<i, j, playerIndex1, playerIndex2>>
  elapsed,             \* currentTime - startTime as last read by the optimizer
  result,              \* what the last finished call returned
  previous,            \* <<[randomSeed, value]>>: seed and result of an earlier generateTeams call on these inputs
  before,              \* the TeamMatch array when the optimizer was entered
  attempts,            \* handleReshuffle: failed attempts of the call in progress
  reshuffleCount,      \* GeneratedTeamsScreen state
  lastReshuffleInfo    \* GeneratedTeamsScreen state: "", "reshuffled" or "forced"

vars ==
  <<pc, caller, players, numberOfTeams, playersPerTeam, skillWeights, randomSeed,
    weights, playersWithScores, playerIndex, forward, teams, iterations,
    bestScoreDifference, improved, scan, elapsed, result, previous, before,
    attempts, reshuffleCount, lastReshuffleInfo>>

inputVars == <<players, numberOfTeams, playersPerTeam, skillWeights, randomSeed, previous>>
draftVars == <<playersWithScores, playerIndex, forward>>
optVars == <<iterations, bestScoreDifference, improved, scan, elapsed>>
screenVars == <<attempts, reshuffleCount, lastReshuffleInfo>>

\* ------------------------------------------------------------- input domain

\* skill ratings a modelled player can have
Ratings ==
  { Uniform(1), Uniform(2),
    [serve |-> 3, set |-> 0, block |-> 0, receive |-> 0, attack |-> 0, defense |-> 0] }

\* weights a caller passes instead of the default
CustomWeights ==
  [serve |-> 50, set |-> 10, block |-> 10, receive |-> 10, attack |-> 10, defense |-> 10]

Player(id, skills, availability) ==
  [id |-> id, serve |-> skills.serve, set |-> skills.set, block |-> skills.block,
   receive |-> skills.receive, attack |-> skills.attack, defense |-> skills.defense,
   availability |-> availability]

\* what a list entry can be: an available player of some rating, or an
\* unavailable one (whose ratings are never read)
PlayerKinds ==
  { <<r, "available">> : r \in Ratings } \cup { <<Uniform(1), "unavailable">> }

\* player lists of up to MaxPlayers entries; the id is the position in the list
PlayerLists ==
  UNION { { [n \in 1..len |-> Player(n, kinds[n][1], kinds[n][2])] :
              kinds \in [1..len -> PlayerKinds] } : len \in 0..MaxPlayers }

\* ----------------------------------------------------------- generateTeams

PlayerWithScore(player, w) ==
  [id |-> player.id, serve |-> player.serve, set |-> player.set,
   block |-> player.block, receive |-> player.receive, attack |-> player.attack,
   defense |-> player.defense, availability |-> player.availability,
   totalScore |-> calculatePlayerScore(player, w)]

\* IsAvailable that lets every player through
IsAvailable_Anyone(p) == p.availability \in {"available", "unavailable"}

\* p => p.availability === 'available'
IsAvailable(p) == p.availability = "available"

\* skillWeights || DEFAULT_WEIGHTS
ResolveWeights(sw) == IF sw = <<>> THEN DEFAULT_WEIGHTS ELSE sw[1]

EmptyTeam == [players |-> <<>>, totalScore |-> 0, skillAverages |-> getEmptySkillAverages]

\* sortByScore with ties broken by the seed: from the higher id down on seed 2
sortByScore_Seeded(pws) ==
  IF randomSeed = 2
  THEN SortByKey(pws, [n \in 1..Len(pws) |-> 0 - (pws[n].totalScore * 100 + pws[n].id)])
  ELSE SortByKey(pws, ScoreDescending(pws))

\* line 42: playersWithScores.sort((a, b) => b.totalScore - a.totalScore)
sortByScore(pws) == SortByKey(pws, ScoreDescending(pws))

\* GenerateTeams scoring and sorting the caller's array itself
GenerateTeams_SortsInput ==
  /\ pc = "call"
  /\ LET w == ResolveWeights(skillWeights)
         availablePlayers == SelectSeq(players, IsAvailable)
     IN IF Len(availablePlayers) = 0
        THEN /\ pc' = "threw"
             /\ result' = [op |-> "generateTeams",
                           value |-> [error |-> "No available players found"]]
             /\ UNCHANGED <<weights, draftVars, teams>>
        ELSE /\ pc' = "draft"
             /\ weights' = w
             /\ playersWithScores' =
                  sortByScore([n \in 1..Len(availablePlayers) |->
                                 PlayerWithScore(availablePlayers[n], w)])
             /\ teams' = [n \in 1..numberOfTeams |-> EmptyTeam]
             /\ playerIndex' = 0
             /\ forward' = TRUE
             /\ UNCHANGED result
  /\ players' = sortByScore([n \in 1..Len(players) |->
                            PlayerWithScore(players[n], ResolveWeights(skillWeights))])
  /\ UNCHANGED <<caller, numberOfTeams, playersPerTeam, skillWeights, randomSeed, previous,
                 screenVars, optVars, before>>

\* lines 23-51: filter, throw on an empty selection, score, sort, make the teams
GenerateTeams ==
  /\ pc = "call"
  /\ LET w == ResolveWeights(skillWeights)
         availablePlayers == SelectSeq(players, IsAvailable)
     IN IF Len(availablePlayers) = 0
        THEN /\ pc' = "threw"
             /\ result' = [op |-> "generateTeams",
                           value |-> [error |-> "No available players found"]]
             /\ UNCHANGED <<weights, draftVars, teams>>
        ELSE /\ pc' = "draft"
             /\ weights' = w
             /\ playersWithScores' =
                  sortByScore([n \in 1..Len(availablePlayers) |->
                                 PlayerWithScore(availablePlayers[n], w)])
             /\ teams' = [n \in 1..numberOfTeams |-> EmptyTeam]
             /\ playerIndex' = 0
             /\ forward' = TRUE
             /\ UNCHANGED result
  /\ UNCHANGED <<caller, inputVars, screenVars, optVars, before>>

\* ------------------------------------------------- assignPlayersSnakeDraft

\* the PlayerMatch pushed for a player (lines 104-118)
Slot(player) ==
  [playerId |-> player.id,
   totalScore |-> player.totalScore,
   skills |-> [serve |-> player.serve, set |-> player.set, block |-> player.block,
               receive |-> player.receive, attack |-> player.attack,
               defense |-> player.defense],
   isLocked |-> FALSE]

\* Math.ceil(a / b), b > 0
CeilDiv(a, b) == (a + b - 1) \div b

\* targetPlayersPerTeam that rounds the default down
targetPlayersPerTeam_Floor(ppt, nPlayers, nTeams) ==
  IF ppt # 0 THEN ppt ELSE nPlayers \div nTeams

\* playersPerTeam || Math.ceil(players.length / teams.length)
targetPlayersPerTeam(ppt, nPlayers, nTeams) ==
  IF ppt # 0 THEN ppt ELSE CeilDiv(nPlayers, nTeams)

\* PassOrder that visits the teams from the first one in every pass
PassOrder_AlwaysForward(fwd, nTeams) == [n \in 1..nTeams |-> n]

\* team indices in the order a pass visits them
PassOrder(fwd, nTeams) ==
  IF fwd THEN [n \in 1..nTeams |-> n] ELSE [n \in 1..nTeams |-> nTeams + 1 - n]

RECURSIVE DraftLoop_SkipsPlayer(_, _, _, _, _)
\* DraftLoop with playerIndex++ moved out of the if: a full team uses up a player
DraftLoop_SkipsPlayer(ts, pws, pIdx, order, target) ==
  IF order = <<>> \/ ~(pIdx < Len(pws)) THEN <<ts, pIdx>>
  ELSE LET t == Head(order)
       IN IF Len(ts[t].players) < target
          THEN DraftLoop_SkipsPlayer(
                 [ts EXCEPT ![t].players = Append(@, Slot(pws[pIdx + 1]))],
                 pws, pIdx + 1, Tail(order), target)
          ELSE DraftLoop_SkipsPlayer(ts, pws, pIdx + 1, Tail(order), target)

RECURSIVE DraftLoop(_, _, _, _, _)
\* one for loop of the draft over the team indices left in order: a team
\* below the target takes the next player; the loop ends when the players
\* run out.  Yields <<teams, playerIndex>>.
DraftLoop(ts, pws, pIdx, order, target) ==
  IF order = <<>> \/ ~(pIdx < Len(pws)) THEN <<ts, pIdx>>
  ELSE LET t == Head(order)
       IN IF Len(ts[t].players) < target
          THEN DraftLoop([ts EXCEPT ![t].players = Append(@, Slot(pws[pIdx + 1]))],
                         pws, pIdx + 1, Tail(order), target)
          ELSE DraftLoop(ts, pws, pIdx, Tail(order), target)

\* one turn of "while (playerIndex < players.length)": a forward or a reverse pass
DraftPass ==
  /\ pc = "draft"
  /\ playerIndex < Len(playersWithScores)
  /\ LET target == targetPlayersPerTeam(playersPerTeam, Len(playersWithScores), Len(teams))
         r == DraftLoop(teams, playersWithScores, playerIndex,
                        PassOrder(forward, Len(teams)), target)
     IN /\ teams' = r[1]
        /\ playerIndex' = r[2]
  /\ forward' = ~forward
  /\ UNCHANGED <<pc, caller, inputVars, screenVars, weights, playersWithScores, optVars, result, before>>

\* the draft loop ends; lines 56-59: every team is scored
ScoreTeams ==
  /\ pc = "draft"
  /\ ~(playerIndex < Len(playersWithScores))
  /\ teams' = [n \in 1..Len(teams) |-> updateTeamScores(teams[n], weights)]
  /\ pc' = "scored"
  /\ UNCHANGED <<caller, inputVars, screenVars, weights, draftVars, optVars, result, before>>

\* ----------------------------------------------------- optimizeTeamBalance

\* values of currentTime - startTime the clock can show at a pass boundary
ElapsedSamples == {TIME_LIMIT_MS - 1, TIME_LIMIT_MS, TIME_LIMIT_MS + 1}

\* LoopGuard with <= for <
LoopGuard_OffByOne(imp, its) == imp /\ its <= MAX_ITERATIONS

\* while (improved && iterations < MAX_ITERATIONS)
LoopGuard(imp, its) == imp /\ its < MAX_ITERATIONS

\* TimeLimitHit that breaks only once the limit is passed by more than a
\* millisecond
TimeLimitHit_Late(e) == e > TIME_LIMIT_MS + 1

\* if (currentTime - startTime > TIME_LIMIT_MS) break
TimeLimitHit(e) == e > TIME_LIMIT_MS

\* SkipLocked with && for ||: a pair is passed over only when both are locked
SkipLocked_BothOnly(player1, player2) == player1.isLocked /\ player2.isLocked

\* SkipLocked testing the first player only
SkipLocked_FirstOnly(player1, player2) == player1.isLocked

\* if (player1.isLocked || player2.isLocked) continue
SkipLocked(player1, player2) == player1.isLocked \/ player2.isLocked

\* AcceptSwap that also keeps a swap that leaves the difference as it was
AcceptSwap_NotWorse(newScoreDifference, best) == newScoreDifference <= best

\* if (newScoreDifference < bestScoreDifference)
AcceptSwap(newScoreDifference, best) == newScoreDifference < best

\* SwapSlots taking the second slot out of its roster (splice) instead of
\* writing the first slot in its place
SwapSlots_TakesSlot(ts, i, j, p1, p2) ==
  IF p2 > Len(ts[j].players) THEN ts
  ELSE [ts EXCEPT ![i].players[p1] = ts[j].players[p2],
                  ![j].players = SubSeq(ts[j].players, 1, p2 - 1)
                                   \o SubSeq(ts[j].players, p2 + 1, Len(ts[j].players))]

\* SwapSlots that copies the second slot over the first and leaves the second
SwapSlots_OneWay(ts, i, j, p1, p2) ==
  [ts EXCEPT ![i].players[p1] = ts[j].players[p2]]

\* the destructuring exchange of teams[i].players[p1] and teams[j].players[p2]
SwapSlots(ts, i, j, p1, p2) ==
  [ts EXCEPT ![i].players[p1] = ts[j].players[p2],
             ![j].players[p2] = ts[i].players[p1]]

\* Rescore that leaves the second team's scores as they were
Rescore_FirstOnly(ts, w, i, j) == [ts EXCEPT ![i] = updateTeamScores(ts[i], w)]

\* updateTeamScores(teams[i]); updateTeamScores(teams[j])
Rescore(ts, w, i, j) ==
  [ts EXCEPT ![i] = updateTeamScores(ts[i], w), ![j] = updateTeamScores(ts[j], w)]

RECURSIVE ScanFrom(_, _, _, _, _)
RECURSIVE ScanFrom_SkipsLastSlot(_, _, _, _, _)
\* ScanFrom whose innermost loop stops one slot before the end of the roster
ScanFrom_SkipsLastSlot(ts, i, j, p1, p2) ==
  IF i > Len(ts) THEN <<>>
  ELSE IF j > Len(ts) THEN ScanFrom_SkipsLastSlot(ts, i + 1, i + 2, 1, 1)
  ELSE IF p1 > Len(ts[i].players) THEN ScanFrom_SkipsLastSlot(ts, i, j + 1, 1, 1)
  ELSE IF p2 > Len(ts[j].players) - 1 THEN ScanFrom_SkipsLastSlot(ts, i, j, p1 + 1, 1)
  ELSE <<i, j, p1, p2>>

\* the first position <<i, j, playerIndex1, playerIndex2>> the four nested
\* for loops reach at or after the given one, <<>> when the loops are over
ScanFrom(ts, i, j, p1, p2) ==
  IF i > Len(ts) THEN <<>>
  ELSE IF j > Len(ts) THEN ScanFrom(ts, i + 1, i + 2, 1, 1)
  ELSE IF p1 > Len(ts[i].players) THEN ScanFrom(ts, i, j + 1, 1, 1)
  ELSE IF p2 > Len(ts[j].players) THEN ScanFrom(ts, i, j, p1 + 1, 1)
  ELSE <<i, j, p1, p2>>

\* lines 245-247
EnterOptimizer(who) ==
  /\ iterations' = 0
  /\ bestScoreDifference' = calculateTotalScoreDifference(teams)
  /\ improved' = TRUE
  /\ scan' = <<>>
  /\ elapsed' = 0
  /\ caller' = who
  /\ before' = teams
  /\ pc' = "guard"

\* line 62: generateTeams calls the optimizer
OptimizeFromGenerate ==
  /\ pc = "scored"
  /\ EnterOptimizer("generateTeams")
  /\ UNCHANGED <<inputVars, screenVars, weights, draftVars, teams, result>>

\* the loop condition fails: line 297
LoopExit ==
  /\ pc = "guard"
  /\ ~LoopGuard(improved, iterations)
  /\ pc' = "optimized"
  /\ UNCHANGED <<caller, inputVars, screenVars, weights, draftVars, teams, optVars, result, before>>

\* lines 250-253: the clock is read and the limit is passed
TimeLimitBreak ==
  /\ pc = "guard"
  /\ LoopGuard(improved, iterations)
  /\ \E e \in ElapsedSamples :
       /\ TimeLimitHit(e)
       /\ elapsed' = e
  /\ pc' = "optimized"
  /\ UNCHANGED <<caller, inputVars, screenVars, weights, draftVars, teams, iterations,
                 bestScoreDifference, improved, scan, result, before>>

\* lines 250-256: the clock is read, the limit is not passed, a pass starts
PassStart ==
  /\ pc = "guard"
  /\ LoopGuard(improved, iterations)
  /\ \E e \in ElapsedSamples :
       /\ ~TimeLimitHit(e)
       /\ elapsed' = e
  /\ improved' = FALSE
  /\ iterations' = iterations + 1
  /\ scan' = ScanFrom(teams, 1, 2, 1, 1)
  /\ pc' = IF scan' = <<>> THEN "guard" ELSE "scan"
  /\ UNCHANGED <<caller, inputVars, screenVars, weights, draftVars, teams, bestScoreDifference,
                 result, before>>

\* Trial that leaves the pass as soon as a swap is accepted
Trial_StopsAtAccept ==
  /\ pc = "scan"
  /\ \E i \in {scan[1]}, j \in {scan[2]}, p1 \in {scan[3]}, p2 \in {scan[4]} :
       /\ IF SkipLocked(teams[i].players[p1], teams[j].players[p2])
          THEN UNCHANGED <<teams, bestScoreDifference, improved>>
          ELSE \* lines 270-277: exchange the two slots, rescore, measure
               \E swapped \in {SwapSlots(teams, i, j, p1, p2)} :
               \E tried \in {Rescore(swapped, weights, i, j)} :
               \E newScoreDifference \in {calculateTotalScoreDifference(tried)} :
                 IF AcceptSwap(newScoreDifference, bestScoreDifference)
                 THEN /\ teams' = tried
                      /\ bestScoreDifference' = newScoreDifference
                      /\ improved' = TRUE
                 ELSE \* lines 284-289: exchange them back and rescore
                      /\ \E back \in {SwapSlots(tried, i, j, p1, p2)} :
                           teams' = Rescore(back, weights, i, j)
                      /\ UNCHANGED <<bestScoreDifference, improved>>
       /\ scan' = IF teams' # teams THEN <<>> ELSE ScanFrom(teams, i, j, p1, p2 + 1)
       /\ pc' = IF scan' = <<>> THEN "guard" ELSE "scan"
  /\ UNCHANGED <<caller, inputVars, screenVars, weights, draftVars, iterations, elapsed, result, before>>

\* lines 263-290: one turn of the innermost loop
Trial ==
  /\ pc = "scan"
  /\ \E i \in {scan[1]}, j \in {scan[2]}, p1 \in {scan[3]}, p2 \in {scan[4]} :
       /\ IF SkipLocked(teams[i].players[p1], teams[j].players[p2])
          THEN UNCHANGED <<teams, bestScoreDifference, improved>>
          ELSE \* lines 270-277: exchange the two slots, rescore, measure
               \E swapped \in {SwapSlots(teams, i, j, p1, p2)} :
               \E tried \in {Rescore(swapped, weights, i, j)} :
               \E newScoreDifference \in {calculateTotalScoreDifference(tried)} :
                 IF AcceptSwap(newScoreDifference, bestScoreDifference)
                 THEN /\ teams' = tried
                      /\ bestScoreDifference' = newScoreDifference
                      /\ improved' = TRUE
                 ELSE \* lines 284-289: exchange them back and rescore
                      /\ \E back \in {SwapSlots(tried, i, j, p1, p2)} :
                           teams' = Rescore(back, weights, i, j)
                      /\ UNCHANGED <<bestScoreDifference, improved>>
       /\ scan' = ScanFrom(teams, i, j, p1, p2 + 1)
       /\ pc' = IF scan' = <<>> THEN "guard" ELSE "scan"
  /\ UNCHANGED <<caller, inputVars, screenVars, weights, draftVars, iterations, elapsed, result, before>>

\* lines 64-74: generateTeams returns (skillBalanceScore and executionTime,
\* which nothing reads back, are left out of the result)
GenerateReturn ==
  /\ pc = "optimized"
  /\ caller = "generateTeams"
  /\ result' = [op |-> "generateTeams",
                value |-> [teams |-> teams,
                           totalScoreDifference |-> calculateTotalScoreDifference(teams),
                           iterations |-> iterations]]
  /\ pc' = "returned"
  /\ UNCHANGED <<caller, inputVars, screenVars, weights, draftVars, teams, optVars, before>>

\* the optimizer returns to a caller that holds the assignment
OptimizeReturn ==
  /\ pc = "optimized"
  /\ caller = "direct"
  /\ result' = [op |-> "optimizeTeamBalance", value |-> [iterations |-> iterations]]
  /\ pc' = "idle"
  \* the optimizer's locals and the snapshot go out of scope
  /\ iterations' = 0
  /\ bestScoreDifference' = 0
  /\ improved' = FALSE
  /\ scan' = <<>>
  /\ elapsed' = 0
  /\ before' = <<>>
  /\ caller' = "none"
  /\ UNCHANGED <<inputVars, screenVars, weights, draftVars, teams>>

\* optimizeTeamBalance(teams, weights, startTime) on the assignment at hand
OptimizeDirect ==
  /\ pc = "idle"
  /\ EnterOptimizer("direct")
  /\ UNCHANGED <<inputVars, screenVars, weights, draftVars, teams, result>>

\* ------------------------------------------------- swapPlayers, lockPlayer

RECURSIVE FindFrom(_, _, _)
\* players.findIndex(p => p.playerId === playerId) from 0-based index n on
FindFrom(slots, playerId, n) ==
  IF n >= Len(slots) THEN -1
  ELSE IF slots[n + 1].playerId = playerId THEN n
  ELSE FindFrom(slots, playerId, n + 1)

findIndex(slots, playerId) == FindFrom(slots, playerId, 0)

\* players.splice(n, 1), n a 0-based index
Splice(slots, n) == SubSeq(slots, 1, n) \o SubSeq(slots, n + 2, Len(slots))

\* lines 344-346: the index checks that make swapPlayers return false
BadIndices(ts, fromTeamIndex, toTeamIndex) ==
  \/ fromTeamIndex = toTeamIndex
  \/ fromTeamIndex < 0 \/ fromTeamIndex >= Len(ts)
  \/ toTeamIndex < 0 \/ toTeamIndex >= Len(ts)

\* NotMovable without the lock test
NotMovable_IgnoresLock(slots, playerId) == findIndex(slots, playerId) = -1

\* lines 351-355: the slot is missing from the source team, or is locked
NotMovable(slots, playerId) ==
  LET n == findIndex(slots, playerId)
  IN n = -1 \/ slots[n + 1].isLocked

\* MoveSlot without the two updateTeamScores calls
MoveSlot_StaleScores(ts, playerId, fromTeamIndex, toTeamIndex, w) ==
  LET n == findIndex(ts[fromTeamIndex + 1].players, playerId)
  IN [ts EXCEPT ![fromTeamIndex + 1].players = Splice(@, n),
                ![toTeamIndex + 1].players = Append(@, ts[fromTeamIndex + 1].players[n + 1])]

\* lines 357-365: splice, push, rescore both teams
MoveSlot(ts, playerId, fromTeamIndex, toTeamIndex, w) ==
  LET f == fromTeamIndex + 1
      t == toTeamIndex + 1
      n == findIndex(ts[f].players, playerId)
      player == ts[f].players[n + 1]
      moved == [ts EXCEPT ![f].players = Splice(@, n),
                          ![t].players = Append(@, player)]
  IN Rescore(moved, w, f, t)

\* swapPlayers: <<return value, teams afterwards>>; team indices are 0-based
swapPlayers(ts, playerId, fromTeamIndex, toTeamIndex, w) ==
  IF BadIndices(ts, fromTeamIndex, toTeamIndex) THEN <<FALSE, ts>>
  ELSE IF NotMovable(ts[fromTeamIndex + 1].players, playerId) THEN <<FALSE, ts>>
  ELSE <<TRUE, MoveSlot(ts, playerId, fromTeamIndex, toTeamIndex, w)>>

RECURSIVE LockFrom(_, _, _, _)
\* the loop "for (const team of teams)" from team n (1-based) on
LockFrom(ts, playerId, isLocked, n) ==
  IF n > Len(ts) THEN <<FALSE, ts>>
  ELSE LET k == findIndex(ts[n].players, playerId)
       IN IF k # -1
          THEN <<TRUE, [ts EXCEPT ![n].players[k + 1].isLocked = isLocked]>>
          ELSE LockFrom(ts, playerId, isLocked, n + 1)

\* lockPlayer that locks whatever flag it is given
lockPlayer_IgnoresFlag(ts, playerId, isLocked) == LockFrom(ts, playerId, TRUE, 1)

\* lockPlayer: <<return value, teams afterwards>>
lockPlayer(ts, playerId, isLocked) == LockFrom(ts, playerId, isLocked, 1)

\* player ids and team indices a caller passes, the wrong ones included
PlayerIdArgs == 1..(Len(players) + 1)
TeamIndexArgs == -1..Len(teams)

SwapPlayers(playerId, fromTeamIndex, toTeamIndex) ==
  /\ pc = "idle"
  /\ \E r \in {swapPlayers(teams, playerId, fromTeamIndex, toTeamIndex, weights)} :
       /\ result' = [op |-> "swapPlayers", value |-> r[1]]
       /\ teams' = r[2]
  /\ UNCHANGED <<pc, caller, inputVars, screenVars, weights, draftVars, optVars, before>>

LockPlayer(playerId, isLocked) ==
  /\ pc = "idle"
  /\ \E r \in {lockPlayer(teams, playerId, isLocked)} :
       /\ result' = [op |-> "lockPlayer", value |-> r[1]]
       /\ teams' = r[2]
  /\ UNCHANGED <<pc, caller, inputVars, screenVars, weights, draftVars, optVars, before>>

\* ------------------------------------------------------------ specifications

\* no call has finished yet
NoResult == [op |-> "none", value |-> FALSE]

\* random seeds a caller passes
Seeds == {1, 2}

\* nothing has run yet
Fresh ==
  /\ caller = "none"
  /\ weights = DEFAULT_WEIGHTS
  /\ playersWithScores = <<>>
  /\ playerIndex = 0
  /\ forward = TRUE
  /\ teams = <<>>
  /\ iterations = 0
  /\ bestScoreDifference = 0
  /\ improved = FALSE
  /\ scan = <<>>
  /\ elapsed = 0
  /\ result = NoResult
  /\ previous = <<>>
  /\ before = <<>>
  /\ attempts = 0
  /\ reshuffleCount = 0
  /\ lastReshuffleInfo = ""

\* a generateTeams call on any input of the domain
InitGen ==
  /\ pc = "call"
  /\ players \in PlayerLists
  /\ numberOfTeams \in 1..MaxTeams
  /\ playersPerTeam \in 0..MaxPerTeam
  /\ skillWeights \in {<<>>, <<CustomWeights>>}
  /\ randomSeed = 1
  /\ Fresh

NextGen ==
  \/ GenerateTeams
  \/ DraftPass
  \/ ScoreTeams
  \/ OptimizeFromGenerate
  \/ PassStart
  \/ TimeLimitBreak
  \/ Trial
  \/ LoopExit
  \/ GenerateReturn

SpecGen == InitGen /\ [][NextGen]_vars

\* the ratings of the six players of the worked example; with every skill
\* rated r a player's score is r under the default weights
ExampleRatings == <<10, 9, 8, 7, 6, 5>>

\* the call of the worked example, the six players in any order of the input
InitExample ==
  /\ pc = "call"
  /\ \E f \in { g \in [1..Len(ExampleRatings) -> 1..Len(ExampleRatings)] :
                  \A a, b \in 1..Len(ExampleRatings) : a # b => g[a] # g[b] } :
       players = [n \in 1..Len(ExampleRatings) |->
                    Player(n, Uniform(ExampleRatings[f[n]]), "available")]
  /\ numberOfTeams = 2
  /\ playersPerTeam = 3
  /\ skillWeights = <<>>
  /\ randomSeed = 1
  /\ Fresh

SpecExample == InitExample /\ [][NextGen]_vars

\* no call has been made yet
InitStart ==
  /\ pc = "start"
  /\ players = <<>>
  /\ numberOfTeams = 1
  /\ playersPerTeam = 0
  /\ skillWeights = <<>>
  /\ randomSeed = 1
  /\ Fresh

\* a caller hands generateTeams a list of available players, a number of
\* teams and possibly a playersPerTeam
CallGenerateTeams ==
  /\ pc = "start"
  /\ players' \in { l \in PlayerLists :
                      \A n \in 1..Len(l) : l[n].availability = "available" }
  /\ numberOfTeams' \in 1..MaxTeams
  /\ playersPerTeam' \in 0..MaxPerTeam
  /\ pc' = "call"
  /\ UNCHANGED <<caller, skillWeights, randomSeed, previous, screenVars, weights, draftVars,
                 teams, optVars, result, before>>

\* the draft alone, up to the scoring of the drafted teams
NextDraft ==
  \/ CallGenerateTeams
  \/ GenerateTeams
  \/ DraftPass
  \/ ScoreTeams

\* assignPlayersSnakeDraft is synchronous code: a step it can take is taken
SpecDraftFair ==
  /\ InitStart
  /\ [][NextDraft]_vars
  /\ WF_vars(DraftPass) /\ WF_vars(ScoreTeams)

\* a caller asks for more teams than the list has available players: a list
\* of up to MaxTeams entries, at least one of them available, and up to
\* MaxTeams teams more than that
CallWithSpareTeams ==
  /\ pc = "start"
  /\ \E l \in { m \in PlayerLists : /\ Len(m) <= MaxTeams
                                    /\ Len(SelectSeq(m, IsAvailable)) >= 1 } :
       /\ players' = l
       /\ numberOfTeams' \in (Len(SelectSeq(l, IsAvailable)) + 1)..
                             (Len(SelectSeq(l, IsAvailable)) + MaxTeams)
  /\ playersPerTeam' \in 0..MaxPerTeam
  /\ pc' = "call"
  /\ UNCHANGED <<caller, skillWeights, randomSeed, previous, screenVars, weights, draftVars,
                 teams, optVars, result, before>>

NextSpare ==
  \/ CallWithSpareTeams
  \/ NextGen

\* generateTeams is synchronous code: a step it can take is taken
SpecSpareFair ==
  /\ InitStart
  /\ [][NextSpare]_vars
  /\ WF_vars(NextGen)

RECURSIVE DraftRun(_, _, _, _, _)
\* the whole while loop of the draft, for a target that lets it end
DraftRun(ts, pws, pIdx, fwd, target) ==
  IF ~(pIdx < Len(pws)) THEN ts
  ELSE LET r == DraftLoop(ts, pws, pIdx, PassOrder(fwd, Len(ts)), target)
       IN DraftRun(r[1], pws, r[2], ~fwd, target)

\* what generateTeams hands to the optimizer for a list of available players
\* and no playersPerTeam: the scored snake draft
DraftedTeams(list, nTeams, w) ==
  LET pws == sortByScore([n \in 1..Len(list) |-> PlayerWithScore(list[n], w)])
      drafted == DraftRun([n \in 1..nTeams |-> EmptyTeam], pws, 0, TRUE,
                          targetPlayersPerTeam(0, Len(pws), nTeams))
  IN [n \in 1..nTeams |-> updateTeamScores(drafted[n], w)]

\* the players of the manual-tuning scenarios: all available, all six skills
\* of player n rated PoolRatings[n]
PoolRatings == <<1, 2, 2, 2, 6>>

Pool(size) == [n \in 1..size |-> Player(n, Uniform(PoolRatings[n]), "available")]

\* <<players, numberOfTeams>> of the manual-tuning scenarios
ApiScenarios == { <<Pool(3), 2>>, <<Pool(3), 3>> }

\* a caller holds an assignment and no call is in progress
Held ==
  /\ pc = "idle"
  /\ playersPerTeam = 0
  /\ skillWeights = <<>>
  /\ randomSeed = 1
  /\ caller = "none"
  /\ weights = DEFAULT_WEIGHTS
  /\ playersWithScores = <<>>
  /\ playerIndex = 0
  /\ forward = TRUE
  /\ iterations = 0
  /\ bestScoreDifference = 0
  /\ improved = FALSE
  /\ scan = <<>>
  /\ elapsed = 0
  /\ result = NoResult
  /\ previous = <<>>
  /\ before = <<>>
  /\ attempts = 0
  /\ reshuffleCount = 0
  /\ lastReshuffleInfo = ""

\* an assignment as generateTeams drafts it, held by a caller that goes on to
\* lock, move and re-optimize
Init ==
  /\ \E sc \in ApiScenarios :
       /\ players = sc[1]
       /\ numberOfTeams = sc[2]
       /\ teams = DraftedTeams(sc[1], sc[2], DEFAULT_WEIGHTS)
  /\ Held

Next ==
  \/ \E playerId \in PlayerIdArgs, fromTeamIndex, toTeamIndex \in TeamIndexArgs :
       SwapPlayers(playerId, fromTeamIndex, toTeamIndex)
  \/ \E playerId \in PlayerIdArgs, isLocked \in BOOLEAN :
       LockPlayer(playerId, isLocked)
  \/ OptimizeDirect
  \/ PassStart
  \/ TimeLimitBreak
  \/ Trial
  \/ LoopExit
  \/ OptimizeReturn

Spec == Init /\ [][Next]_vars

\* ------------------------------------- generateTeams, then manual tuning

\* Pool(3) and an unavailable fourth player
PoolWithAbsentee == Pool(3) \o <<Player(4, Uniform(2), "unavailable")>>

\* generateTeams is called on a selection that holds an unavailable player
InitSession ==
  /\ pc = "call"
  /\ players = PoolWithAbsentee
  /\ numberOfTeams \in {2, 3}
  /\ playersPerTeam = 0
  /\ skillWeights \in {<<>>, <<CustomWeights>>}
  /\ randomSeed = 1
  /\ Fresh

\* the caller keeps result.teams to lock, move and re-optimize; the locals of
\* the finished call are gone
KeepResult ==
  /\ pc = "returned"
  /\ pc' = "idle"
  /\ caller' = "none"
  /\ iterations' = 0
  /\ bestScoreDifference' = 0
  /\ improved' = FALSE
  /\ scan' = <<>>
  /\ elapsed' = 0
  /\ before' = <<>>
  /\ UNCHANGED <<inputVars, screenVars, weights, draftVars, teams, result>>

NextSession ==
  \/ GenerateTeams
  \/ DraftPass
  \/ ScoreTeams
  \/ OptimizeFromGenerate
  \/ PassStart
  \/ TimeLimitBreak
  \/ Trial
  \/ LoopExit
  \/ GenerateReturn
  \/ KeepResult
  \/ \E playerId \in PlayerIdArgs, from \in TeamIndexArgs, to \in TeamIndexArgs :
       SwapPlayers(playerId, from, to)
  \/ \E playerId \in PlayerIdArgs, isLocked \in BOOLEAN : LockPlayer(playerId, isLocked)
  \/ OptimizeDirect
  \/ OptimizeReturn

SpecSession == InitSession /\ [][NextSession]_vars

\* ------------------------------------------------ generateTeams run twice

\* lists of available players rated 1 or 2 on every skill
PlainLists ==
  UNION { { [n \in 1..len |-> Player(n, Uniform(r[n]), "available")] :
              r \in [1..len -> {1, 2}] } : len \in 0..MaxPlayers }

\* generateTeams is called with the default weights and no playersPerTeam
InitRepeat ==
  /\ pc = "call"
  /\ players \in PlainLists
  /\ numberOfTeams \in 1..MaxTeams
  /\ playersPerTeam = 0
  /\ skillWeights = <<>>
  /\ randomSeed \in Seeds
  /\ Fresh

\* generateTeams is called once more on the same arguments, with a seed of
\* its own, the first run's seed and result kept for comparison
GenerateAgain ==
  /\ pc = "returned"
  /\ previous = <<>>
  /\ previous' = <<[randomSeed |-> randomSeed, value |-> result.value]>>
  /\ randomSeed' \in Seeds
  /\ pc' = "call"
  /\ UNCHANGED <<caller, players, numberOfTeams, playersPerTeam, skillWeights, screenVars,
                 weights, draftVars, teams, optVars, result, before>>

NextRepeat ==
  \/ GenerateTeams
  \/ DraftPass
  \/ ScoreTeams
  \/ OptimizeFromGenerate
  \/ PassStart
  \/ TimeLimitBreak
  \/ Trial
  \/ LoopExit
  \/ GenerateReturn
  \/ GenerateAgain

SpecRepeat == InitRepeat /\ [][NextRepeat]_vars

\* --------------------------------------------------- GeneratedTeamsScreen

\* the orders n slots can stand in
Orders(n) ==
  { f \in [1..n -> 1..n] : \A a, b \in 1..n : a # b => f[a] # f[b] }

\* handleReshuffle: const maxAttempts = 100
maxAttempts == 100

\* the PlayerMatch the screen builds for a player: its totalScore is the plain
\* sum of the six ratings (held in hundredths like every score)
ReshuffleSlot(player) ==
  [playerId |-> player.id,
   totalScore |-> 100 * (player.serve + player.set + player.block +
                         player.receive + player.attack + player.defense),
   skills |-> [serve |-> player.serve, set |-> player.set, block |-> player.block,
               receive |-> player.receive, attack |-> player.attack,
               defense |-> player.defense],
   isLocked |-> FALSE]

RECURSIVE ChunkFrom(_, _, _, _)
\* the loop "for (i = 0; i < params.numberOfTeams; i++)" from i on: slice the
\* row, skip an empty slice, build the team
ChunkFrom(row, nTeams, perTeam, i) ==
  IF ~(i < nTeams) THEN <<>>
  ELSE LET startIndex == i * perTeam
           endIndex == IF startIndex + perTeam < Len(row)
                       THEN startIndex + perTeam ELSE Len(row)
           teamPlayers == SubSeq(row, startIndex + 1, endIndex)
           team == [EmptyTeam EXCEPT
                      !.players = [n \in 1..Len(teamPlayers) |-> ReshuffleSlot(teamPlayers[n])]]
       IN IF Len(teamPlayers) = 0
          THEN ChunkFrom(row, nTeams, perTeam, i + 1)
          ELSE <<team>> \o ChunkFrom(row, nTeams, perTeam, i + 1)

\* the teams built from a row of players: Math.ceil(length / numberOfTeams) each
BuiltTeams(row, nTeams) == ChunkFrom(row, nTeams, CeilDiv(Len(row), nTeams), 0)

\* TeamGenerationService.updateTeamScores(team, params.skillWeights) on each
\* team that was built
ScoredTeams(built, w) == [t \in 1..Len(built) |-> updateTeamScores(built[t], w)]

\* the teams of a row of players, built and scored
TeamsOfRow(row, nTeams, w) == ScoredTeams(BuiltTeams(row, nTeams), w)

\* the list in the order f, any of which the Fisher-Yates shuffle can produce
Shuffled(list, f) == [n \in 1..Len(list) |-> list[f[n]]]

RECURSIVE RotateRight(_, _)
\* k times: pop the last player and unshift it
RotateRight(list, k) ==
  IF k = 0 \/ list = <<>> THEN list
  ELSE RotateRight(<<list[Len(list)]>> \o SubSeq(list, 1, Len(list) - 1), k - 1)

\* Math.floor(Math.random() * (length - 1)) + 1
RotationAmounts(length) == IF length >= 2 THEN 1..(length - 1) ELSE {1}

PlayerIds(team) == { team.players[n].playerId : n \in 1..Len(team.players) }

\* the ids that left plus the ids that came, summed over the team indices
totalPlayerMoves(current, new) ==
  SumSeq([t \in 1..Len(new) |->
            Cardinality(PlayerIds(current[t]) \ PlayerIds(new[t])) +
            Cardinality(PlayerIds(new[t]) \ PlayerIds(current[t]))])

\* the test an attempt has to pass to be taken
SignificantlyDifferent(current, new) ==
  /\ Len(new) = Len(current)
  /\ totalPlayerMoves(current, new) >= 2

\* generateInitialTeams: setGeneratedTeams(result.teams)
ShowTeams ==
  /\ pc = "returned"
  /\ pc' = "shown"
  /\ UNCHANGED <<caller, inputVars, screenVars, weights, draftVars, teams, optVars,
                 result, before>>

\* handleReshuffle is called
HandleReshuffle ==
  /\ pc = "shown"
  /\ reshuffleCount < MaxReshuffles
  /\ pc' = "reshuffling"
  /\ attempts' = 0
  /\ lastReshuffleInfo' = ""
  /\ UNCHANGED <<caller, inputVars, reshuffleCount, weights, draftVars, teams, optVars,
                 result, before>>

\* ReshuffleAttempt without attempts++ for an attempt that is dropped
ReshuffleAttempt_NoCount ==
  /\ pc = "reshuffling"
  /\ attempts < maxAttempts
  /\ \E f \in Orders(Len(players)) :
       \E shuffledPlayers \in {Shuffled(players, f)} :
       \E built \in {BuiltTeams(shuffledPlayers, numberOfTeams)} :
       \E newTeamsTemp \in {ScoredTeams(built, skillWeights[1])} :
         IF SignificantlyDifferent(teams, newTeamsTemp)
         THEN /\ teams' = newTeamsTemp
              /\ reshuffleCount' = reshuffleCount + 1
              /\ lastReshuffleInfo' = "reshuffled"
              /\ pc' = "shown"
              /\ UNCHANGED attempts
         ELSE /\ attempts' = attempts
              /\ UNCHANGED <<teams, reshuffleCount, lastReshuffleInfo, pc>>
  /\ UNCHANGED <<caller, inputVars, weights, draftVars, optVars, result, before>>

\* one turn of "while (attempts < maxAttempts)"
ReshuffleAttempt ==
  /\ pc = "reshuffling"
  /\ attempts < maxAttempts
  /\ \E f \in Orders(Len(players)) :
       \E shuffledPlayers \in {Shuffled(players, f)} :
       \E built \in {BuiltTeams(shuffledPlayers, numberOfTeams)} :
       \E newTeamsTemp \in {ScoredTeams(built, skillWeights[1])} :
         IF SignificantlyDifferent(teams, newTeamsTemp)
         THEN /\ teams' = newTeamsTemp
              /\ reshuffleCount' = reshuffleCount + 1
              /\ lastReshuffleInfo' = "reshuffled"
              /\ pc' = "shown"
              /\ UNCHANGED attempts
         ELSE /\ attempts' = attempts + 1
              /\ UNCHANGED <<teams, reshuffleCount, lastReshuffleInfo, pc>>
  /\ UNCHANGED <<caller, inputVars, weights, draftVars, optVars, result, before>>

\* no attempt was taken: generateForcedDifferentTeams
ForcedReshuffle ==
  /\ pc = "reshuffling"
  /\ ~(attempts < maxAttempts)
  /\ \E rotationAmount \in RotationAmounts(Len(players)) :
       \E rotatedPlayers \in {RotateRight(players, rotationAmount)} :
       \E built \in {BuiltTeams(rotatedPlayers, numberOfTeams)} :
         teams' = ScoredTeams(built, skillWeights[1])
  /\ reshuffleCount' = reshuffleCount + 1
  /\ lastReshuffleInfo' = "forced"
  /\ pc' = "shown"
  /\ UNCHANGED <<caller, inputVars, attempts, weights, draftVars, optVars, result, before>>

\* <<selectedPlayers, numberOfTeams, skillWeights>> of the screen scenarios
ScreenScenarios ==
  { <<Pool(3), 2, DEFAULT_WEIGHTS>>, <<Pool(4), 3, CustomWeights>> }

\* the screen mounts: generateTeams is called on the route parameters
InitScreen ==
  /\ pc = "call"
  /\ \E sc \in ScreenScenarios :
       /\ players = sc[1]
       /\ numberOfTeams = sc[2]
       /\ skillWeights = <<sc[3]>>
  /\ playersPerTeam = 0
  /\ randomSeed \in Seeds
  /\ Fresh

NextScreen ==
  \/ GenerateTeams
  \/ DraftPass
  \/ ScoreTeams
  \/ OptimizeFromGenerate
  \/ PassStart
  \/ TimeLimitBreak
  \/ Trial
  \/ LoopExit
  \/ GenerateReturn
  \/ ShowTeams
  \/ HandleReshuffle
  \/ ReshuffleAttempt
  \/ ForcedReshuffle

SpecReshuffle == InitScreen /\ [][NextScreen]_vars

\* the screen mounts on a selection of three for two teams, of two for
\* three teams (one team of the draft stays empty), or of two for one team
InitScreenFew ==
  /\ pc = "call"
  /\ \E sc \in { <<Pool(3), 2, DEFAULT_WEIGHTS>>, <<Pool(2), 3, CustomWeights>>,
                 <<Pool(2), 1, DEFAULT_WEIGHTS>> } :
       /\ players = sc[1]
       /\ numberOfTeams = sc[2]
       /\ skillWeights = <<sc[3]>>
  /\ playersPerTeam = 0
  /\ randomSeed = 1
  /\ Fresh

\* handleReshuffle is synchronous code: once called, its loop and its
\* fallback run to the end
SpecReshuffleFair ==
  /\ InitScreenFew
  /\ [][NextScreen]_vars
  /\ WF_vars(ReshuffleAttempt \/ ForcedReshuffle)

\* --------------------------------------------------- rosters beyond six

\* the skill ratings of the players of the large-roster scenario
BigRatings == <<3, 1, 1, 1, 1, 1, 1>>

BigPool == [n \in 1..Len(BigRatings) |-> Player(n, Uniform(BigRatings[n]), "available")]

\* the draft of the large pool into two teams, held by a caller
InitBig ==
  /\ players = BigPool
  /\ numberOfTeams = 2
  /\ teams = DraftedTeams(BigPool, 2, DEFAULT_WEIGHTS)
  /\ Held

\* the caller moves players by hand
NextBig ==
  \E playerId \in PlayerIdArgs, from \in TeamIndexArgs, to \in TeamIndexArgs :
     SwapPlayers(playerId, from, to)

SpecBig == InitBig /\ [][NextBig]_vars

\* ------------------------------------------- the optimizer on any assignment

\* where a row of n slots is cut into nTeams rosters: c[k] slots come before team k
Splits(n, nTeams) ==
  { c \in [1..(nTeams + 1) -> 0..n] :
      /\ c[1] = 0
      /\ c[nTeams + 1] = n
      /\ \A k \in 1..nTeams : c[k] <= c[k + 1] }

\* the scored assignment with the slots in order f, cut at c, the slots of
\* the players in locked locked
Arrangement(list, nTeams, f, c, locked, w) ==
  LET slotOf(n) == [Slot(PlayerWithScore(list[n], w)) EXCEPT !.isLocked = (n \in locked)]
      roster(k) == [m \in 1..(c[k + 1] - c[k]) |-> slotOf(f[c[k] + m])]
  IN [k \in 1..nTeams |->
        updateTeamScores([EmptyTeam EXCEPT !.players = roster(k)], w)]

\* <<players, numberOfTeams>> of the optimizer scenarios
OptScenarios == { <<Pool(5), 2>>, <<Pool(4), 3>> }

\* any assignment of a scenario's players, at most MaxLocked of them locked
InitOpt ==
  /\ \E sc \in OptScenarios :
       /\ players = sc[1]
       /\ numberOfTeams = sc[2]
       /\ \E f \in Orders(Len(sc[1])), c \in Splits(Len(sc[1]), sc[2]),
             locked \in { L \in SUBSET (1..Len(sc[1])) : Cardinality(L) <= MaxLocked } :
            teams = Arrangement(sc[1], sc[2], f, c, locked, DEFAULT_WEIGHTS)
  /\ Held

NextOpt ==
  \/ OptimizeDirect
  \/ PassStart
  \/ TimeLimitBreak
  \/ Trial
  \/ LoopExit
  \/ OptimizeReturn

SpecOpt == InitOpt /\ [][NextOpt]_vars

\* the ratings of the pools of thirteen, whose draft into two teams gives a
\* roster of seven and one of six
WideRatings ==
  { <<6, 5, 5, 4, 4, 3, 3, 2, 2, 1, 1, 1, 1>>,
    <<6, 6, 5, 4, 4, 3, 3, 3, 2, 2, 1, 1, 1>>,
    <<5, 5, 5, 5, 4, 4, 3, 2, 2, 2, 2, 1, 1>> }

WidePool(r) == [n \in 1..Len(r) |-> Player(n, Uniform(r[n]), "available")]

\* what generateTeams hands to the optimizer for a pool of thirteen
InitSeven ==
  /\ \E r \in WideRatings :
       /\ players = WidePool(r)
       /\ teams = DraftedTeams(WidePool(r), 2, DEFAULT_WEIGHTS)
  /\ numberOfTeams = 2
  /\ Held

\* the optimizer on the assignments of the optimizer scenarios and on those
\* with a roster of seven
SpecOptWide == (InitOpt \/ InitSeven) /\ [][NextOpt]_vars

\* no assignment is held yet
InitNone ==
  /\ pc = "none"
  /\ players = <<>>
  /\ numberOfTeams = 1
  /\ teams = <<>>
  /\ playersPerTeam = 0
  /\ skillWeights = <<>>
  /\ randomSeed = 1
  /\ Fresh

\* a caller comes to hold an assignment of the optimizer scenarios, no slot
\* of it locked
HoldAssignment ==
  /\ pc = "none"
  /\ \E sc \in OptScenarios :
       /\ players' = sc[1]
       /\ numberOfTeams' = sc[2]
       /\ \E f \in Orders(Len(sc[1])), c \in Splits(Len(sc[1]), sc[2]) :
            teams' = Arrangement(sc[1], sc[2], f, c, {}, DEFAULT_WEIGHTS)
  /\ pc' = "idle"
  /\ UNCHANGED <<caller, playersPerTeam, skillWeights, randomSeed, previous, screenVars, weights,
                 draftVars, optVars, result, before>>

\* a step of the loop condition and the clock test
GuardStep == PassStart \/ TimeLimitBreak \/ LoopExit

\* optimizeTeamBalance is synchronous code: once entered, a step it can take
\* is taken
SpecOptFair ==
  /\ InitNone
  /\ [][HoldAssignment \/ NextOpt]_vars
  /\ WF_vars(GuardStep) /\ WF_vars(Trial)

\* ================================================================== claims

RECURSIVE Flatten(_)
\* the rosters of all teams, one after the other
Flatten(ts) == IF ts = <<>> THEN <<>> ELSE Head(ts).players \o Flatten(Tail(ts))

\* how many entries of the sequence s satisfy Test
Count(Test(_), s) == Cardinality({ n \in 1..Len(s) : Test(s[n]) })

\* the teams hold every id as often as the available players of list do
SameIds(ts, list) ==
  LET slots == Flatten(ts)
      ids == { list[n].id : n \in 1..Len(list) } \cup
             { slots[n].playerId : n \in 1..Len(slots) }
  IN \A id \in ids :
       LET isSlot(sl) == sl.playerId = id
           isPlayer(p) == p.id = id /\ p.availability = "available"
       IN Count(isSlot, slots) = Count(isPlayer, list)

\* C1 (conservation): once the draft is over, and in every later state of a
\* generateTeams call up to and including its return, the teams hold exactly
\* the ids of the available input players, each as often as the input does.
C1_Conservation ==
  pc \in {"scored", "guard", "scan", "optimized", "returned"} => SameIds(teams, players)

\* a call has returned whose optimizer kept a swap
C1_Witness ==
  /\ pc = "returned"
  /\ result.value.teams # before

\* playersPerTeam is given and too small for the teams to take every player
Overflow ==
  /\ playersPerTeam # 0
  /\ numberOfTeams * playersPerTeam < Len(playersWithScores)

\* C2 (allocator overflow): a draft whose playersPerTeam is given and too
\* small to place everyone still ends, with every player on some team.
C2_OverflowDraftEnds ==
  (pc = "draft" /\ Overflow) ~>
     (pc = "scored" /\ Len(Flatten(teams)) = Len(playersWithScores))

\* the optimizer has been entered and has not yet handed its result back
InOptimizer == pc \in {"guard", "scan", "optimized"}

\* C4 (lock invariant of the optimizer): from the entry of optimizeTeamBalance
\* to its return, every slot that was locked at the entry is still the slot
\* at its position of its team.
C4_LockedStay ==
  InOptimizer =>
    \A t \in 1..Len(before) : \A n \in 1..Len(before[t].players) :
      before[t].players[n].isLocked => teams[t].players[n] = before[t].players[n]

\* the optimizer is back from an assignment with a locked slot, having kept a swap
C4_Witness ==
  /\ pc = "optimized"
  /\ teams # before
  /\ \E t \in 1..Len(before) : \E n \in 1..Len(before[t].players) :
       before[t].players[n].isLocked

\* C9 (bounded optimizer work): the optimizer never counts more passes than
\* the cap, and once entered it always comes to its return.
C9_BoundedPasses ==
  /\ [](InOptimizer => iterations <= MAX_ITERATIONS)
  /\ ((pc = "guard") ~> (pc = "optimized"))

\* the optimizer is back at the cap with the last pass having kept a swap
C9_Witness ==
  /\ pc = "optimized"
  /\ iterations = MAX_ITERATIONS
  /\ improved

\* the cases in which a swapPlayers call is to fail (team indices 0-based)
SwapMustFail(ts, playerId, from, to) ==
  \/ from = to
  \/ from < 0 \/ from >= Len(ts)
  \/ to < 0 \/ to >= Len(ts)
  \/ /\ from \in 0..(Len(ts) - 1)
     /\ LET roster == ts[from + 1].players
        IN \/ \A n \in 1..Len(roster) : roster[n].playerId # playerId
           \/ \E n \in 1..Len(roster) : roster[n].playerId = playerId /\ roster[n].isLocked

\* C5 (swapPlayers failure): a swapPlayers call with equal team indices, an
\* index out of range, a player id not in the source team or a locked slot
\* returns false and leaves every team as it was.
C5_SwapFailure ==
  [][\A playerId \in PlayerIdArgs, from \in TeamIndexArgs, to \in TeamIndexArgs :
       (SwapMustFail(teams, playerId, from, to) /\ SwapPlayers(playerId, from, to))
         => (result'.value = FALSE /\ teams' = teams)]_vars

\* a swapPlayers call has returned false while a slot is locked
C5_Witness ==
  /\ result = [op |-> "swapPlayers", value |-> FALSE]
  /\ \E t \in 1..Len(teams) : \E n \in 1..Len(teams[t].players) : teams[t].players[n].isLocked

\* C6 (swapPlayers success): a swapPlayers call with distinct indices in range
\* and an unlocked slot of the player in the source team returns true, takes
\* that slot out of the source roster keeping the order of the rest, appends
\* it to the destination roster, leaves the other teams alone, and leaves the
\* two teams with the scores updateTeamScores computes from their new rosters.
C6_SwapSuccess ==
  [][\A playerId \in PlayerIdArgs, from \in TeamIndexArgs, to \in TeamIndexArgs :
       (~SwapMustFail(teams, playerId, from, to) /\ SwapPlayers(playerId, from, to))
         => LET source == teams[from + 1].players
                n == CHOOSE m \in 1..Len(source) : source[m].playerId = playerId
            IN /\ result'.value = TRUE
               /\ Len(teams') = Len(teams)
               /\ teams'[from + 1].players =
                    [m \in 1..(Len(source) - 1) |-> IF m < n THEN source[m] ELSE source[m + 1]]
               /\ teams'[to + 1].players = Append(teams[to + 1].players, source[n])
               /\ \A k \in 1..Len(teams) : k \notin {from + 1, to + 1} => teams'[k] = teams[k]
               /\ teams'[from + 1] = updateTeamScores(teams'[from + 1], weights)
               /\ teams'[to + 1] = updateTeamScores(teams'[to + 1], weights)]_vars

\* a swapPlayers call has returned true with a third team standing by
C6_Witness ==
  /\ result = [op |-> "swapPlayers", value |-> TRUE]
  /\ Len(teams) = 3

\* C10 (valid result on every exit path): when optimizeTeamBalance returns,
\* whichever way its loop ended, every team carries the scores updateTeamScores
\* computes from its roster and every player is on exactly one team.
C10_ValidOnReturn ==
  pc = "optimized" =>
    /\ \A t \in 1..Len(teams) : teams[t] = updateTeamScores(teams[t], weights)
    /\ SameIds(teams, players)

\* the time limit ended the loop after a pass that kept a swap
C10_Witness ==
  /\ pc = "optimized"
  /\ TimeLimitHit(elapsed)
  /\ teams # before

\* the ways to pick six of n roster positions
SixOf(n) == { S \in SUBSET (1..n) : Cardinality(S) = 6 }

\* C3 (best-6 scoring): a team of seven or more players has the totalScore of
\* its best six: no six of its members have a larger sum of player scores.
C3_BestSixScored ==
  pc = "idle" =>
    \A t \in 1..Len(teams) :
      Len(teams[t].players) >= 7 =>
        \A S \in SixOf(Len(teams[t].players)) :
          teams[t].totalScore >= SumOver([n \in S |-> teams[t].players[n].totalScore], S)

\* the recomputation of a team's scores from the skills of its players
ReferenceScores(team, w) ==
  IF Len(team.players) = 0
  THEN [totalScore |-> 0, skillAverages |-> [k \in SkillNames |-> <<0, 1>>]]
  ELSE LET eff == effectivePlayers(team.players, w)
       IN [totalScore |->
             SumSeq([n \in 1..Len(eff) |->
                       SumOver([k \in SkillNames |-> eff[n].skills[k] * w[k]], SkillNames)]),
           skillAverages |->
             [k \in SkillNames |-> Mean(SkillSum(eff, k), Len(eff))]]

\* C7 (updateTeamScores against the reference): every team the screen shows,
\* drafted by generateTeams or built by a reshuffle, has the totalScore that is
\* the weighted sum of its effective players' skills and the skill averages
\* that are the means over them.
C7_MatchesReference ==
  pc = "shown" =>
    \A t \in 1..Len(teams) :
      LET ref == ReferenceScores(teams[t], skillWeights[1])
      IN /\ teams[t].totalScore = ref.totalScore
         /\ teams[t].skillAverages = ref.skillAverages

\* a second run on the same arguments has returned
SecondReturn == pc = "returned" /\ previous # <<>>

C11_CapScoresOnly ==
  pc = "idle" =>
    /\ SameIds(teams, players)
    /\ \A t \in 1..Len(teams) :
         LET team == teams[t]
             scored == updateTeamScores(team, weights)
         IN /\ scored.players = team.players
            /\ Len(team.players) >= 7 =>
                 \E S \in SixOf(Len(team.players)) :
                   /\ scored.totalScore =
                        SumOver([n \in S |-> team.players[n].totalScore], S)
                   /\ \A k \in SkillNames :
                        scored.skillAverages[k] =
                          Mean(SumOver([n \in S |-> team.players[n].skills[k]], S), 6)

\* a move has just made a team of seven
C11_Witness ==
  /\ pc = "idle"
  /\ result = [op |-> "swapPlayers", value |-> TRUE]
  /\ \E t \in 1..Len(teams) : Len(teams[t].players) = 7

\* some team holds a slot of the player
HeldBySomeTeam(ts, playerId) ==
  \E t \in 1..Len(ts) : \E n \in 1..Len(ts[t].players) :
    ts[t].players[n].playerId = playerId

\* C12 (lockPlayer): a lockPlayer call returns true and sets the isLocked of
\* the player's slot to the flag when a team holds the player, returns false
\* when none does, and in both cases leaves every roster, every totalScore,
\* every skillAverages and every other slot's isLocked as they were.
C12_LockPlayer ==
  [][\A playerId \in PlayerIdArgs, flag \in BOOLEAN :
       LockPlayer(playerId, flag) =>
         /\ result'.value = HeldBySomeTeam(teams, playerId)
         /\ Len(teams') = Len(teams)
         /\ \A t \in 1..Len(teams) :
              /\ teams'[t].totalScore = teams[t].totalScore
              /\ teams'[t].skillAverages = teams[t].skillAverages
              /\ Len(teams'[t].players) = Len(teams[t].players)
              /\ \A n \in 1..Len(teams[t].players) :
                   teams'[t].players[n] =
                     IF teams[t].players[n].playerId = playerId
                     THEN [teams[t].players[n] EXCEPT !.isLocked = flag]
                     ELSE teams[t].players[n]]_vars

\* a lockPlayer call has returned true, one slot locked and another not
C12_Witness ==
  /\ result = [op |-> "lockPlayer", value |-> TRUE]
  /\ \E t \in 1..Len(teams) : \E n \in 1..Len(teams[t].players) : teams[t].players[n].isLocked
  /\ \E t \in 1..Len(teams) : \E n \in 1..Len(teams[t].players) : ~teams[t].players[n].isLocked

\* the index of the team that holds the player, 0 when none does
TeamOf(ts, playerId) ==
  IF \E t \in 1..Len(ts) : playerId \in PlayerIds(ts[t])
  THEN CHOOSE t \in 1..Len(ts) : playerId \in PlayerIds(ts[t])
  ELSE 0

\* the players that are on a different team index in new than in current
MovedPlayers(current, new) ==
  { p \in { players[n].id : n \in 1..Len(players) } :
      TeamOf(current, p) # TeamOf(new, p) }

\* C13 (reshuffle difference guard): whenever handleReshuffle takes a
\* randomized attempt, at least two players are on a different team, by team
\* index, than in the assignment shown before.
C13_TwoPlayersMoved ==
  [][(pc = "reshuffling" /\ lastReshuffleInfo' = "reshuffled")
       => Cardinality(MovedPlayers(teams, teams')) >= 2]_vars

\* the list holds no player whose availability is 'available'
NoneAvailable(list) == \A n \in 1..Len(list) : list[n].availability # "available"

\* C14 (empty selection is an error): a generateTeams call on a list with no
\* available player, empty or all unavailable, whatever numberOfTeams and
\* playersPerTeam, ends in the 'no available players' error and in nothing
\* else: no team is made and no result is returned.
C14_EmptySelectionThrows ==
  NoneAvailable(players) =>
    /\ pc \in {"call", "threw"}
    /\ teams = <<>>
    /\ pc = "threw" =>
         result = [op |-> "generateTeams",
                   value |-> [error |-> "No available players found"]]

\* the call on a list of unavailable players, playersPerTeam given, has thrown
C14_Witness ==
  /\ pc = "threw"
  /\ Len(players) > 0
  /\ playersPerTeam # 0
  /\ numberOfTeams > 1

\* C15 (the caller's player store is never touched): no step of generateTeams,
\* of a later optimizer pass, of swapPlayers or of lockPlayer changes the
\* player array the caller passed, neither its order nor a record in it.
C15_StoreUntouched ==
  [][players' = players]_vars

\* after generateTeams on a selection with an unavailable player, a slot has
\* been moved and a slot is locked
C15_Witness ==
  /\ pc = "idle"
  /\ result = [op |-> "swapPlayers", value |-> TRUE]
  /\ ~NoneAvailable(players)
  /\ \E n \in 1..Len(players) : players[n].availability = "unavailable"
  /\ \E t \in 1..Len(teams) : \E n \in 1..Len(teams[t].players) : teams[t].players[n].isLocked

\* C16 (window coverage of the subset selector): for a roster of more than six
\* slots the subset getBest6PlayerSubset returns scores at least as high as
\* every contiguous window of six of the roster sorted by ascending slot
\* score, the window of the six highest included.
C16_EveryWindowCompared ==
  pc = "idle" =>
    \A t \in 1..Len(teams) :
      LET roster == teams[t].players
          sorted == SortByKey(roster, ScoreAscending(roster))
          chosen == getBest6PlayerSubset(roster, weights)
      IN Len(roster) > 6 =>
           \A i \in 0..(Len(roster) - 6) :
             calculateSubsetScore(chosen, weights) >=
               calculateSubsetScore(SubSeq(sorted, i + 1, i + 6), weights)

\* C17 (strict-improvement acceptance): a trial leaves the assignment as it
\* was or leaves one of strictly smaller spread (max - min team totalScore),
\* so the spread never exceeds the spread the optimizer was entered with, up
\* to and including its return.
C17_StrictImprovement ==
  /\ [][pc = "scan" =>
          \/ teams' = teams
          \/ calculateTotalScoreDifference(teams') < calculateTotalScoreDifference(teams)]_vars
  /\ [](InOptimizer =>
          calculateTotalScoreDifference(teams) <= calculateTotalScoreDifference(before))

\* the optimizer returns an assignment of smaller spread than it was given
C17_Witness ==
  /\ pc = "optimized"
  /\ calculateTotalScoreDifference(teams) < calculateTotalScoreDifference(before)

\* C18 (rejected trial swaps are undone exactly): a trial that does not lower
\* bestScoreDifference leaves every team as it was, roster, order, totalScore
\* and skillAverages, rosters of seven included; so between trials
\* bestScoreDifference is the spread of the assignment at hand.
C18_RejectedUndone ==
  /\ [][(pc = "scan" /\ bestScoreDifference' = bestScoreDifference) => teams' = teams]_vars
  /\ [](InOptimizer => bestScoreDifference = calculateTotalScoreDifference(teams))

\* a whole pass of rejected trials on a roster of seven, no slot locked
C18_Witness ==
  /\ pc = "guard"
  /\ iterations >= 1
  /\ ~improved
  /\ \E t \in 1..Len(teams) : Len(teams[t].players) >= 7
  /\ teams # before

\* the spread after the exchange of slot p1 of team i and slot p2 of team j
SpreadAfterExchange(ts, w, i, j, p1, p2) ==
  calculateTotalScoreDifference(Rescore(SwapSlots(ts, i, j, p1, p2), w, i, j))

\* no exchange of two unlocked slots of two different teams lowers the spread
LocalOptimum(ts, w) ==
  \A i \in 1..Len(ts), j \in 1..Len(ts) :
    i < j =>
      \A p1 \in 1..Len(ts[i].players), p2 \in 1..Len(ts[j].players) :
        (~ts[i].players[p1].isLocked /\ ~ts[j].players[p2].isLocked) =>
          SpreadAfterExchange(ts, w, i, j, p1, p2) >= calculateTotalScoreDifference(ts)

\* C19 (local optimum on normal stop): after a pass in which no swap was
\* accepted the optimizer starts no further pass and returns the assignment
\* as it is, and the assignment it returns then is one whose spread no single
\* exchange of two unlocked players of two different teams makes strictly
\* smaller.
C19_LocalOptimum ==
  /\ [][(pc = "guard" /\ ~improved) => (pc' = "optimized" /\ teams' = teams)]_vars
  /\ []((pc = "optimized" /\ ~improved) => LocalOptimum(teams, weights))

\* the optimizer stopped after a pass without an accepted swap that followed a
\* pass with one, with two unlocked players on different teams
C19_Witness ==
  /\ pc = "optimized"
  /\ ~improved
  /\ teams # before
  /\ \E i \in 1..Len(teams), j \in 1..Len(teams) :
       /\ i < j
       /\ \E p1 \in 1..Len(teams[i].players), p2 \in 1..Len(teams[j].players) :
            ~teams[i].players[p1].isLocked /\ ~teams[j].players[p2].isLocked

\* a step that starts a pass of the optimizer: lines 255-256
StartsPass == pc = "guard" /\ iterations' = iterations + 1

\* C20 (pass start condition), as claimed: a pass starts only when the pass
\* before it accepted a swap or it is the first pass, iterations is below
\* MAX_ITERATIONS, and the time elapsed since generation started, as read at
\* the start of the pass, is strictly less than TIME_LIMIT_MS.
C20_PassStartBelowLimit ==
  [][StartsPass =>
       /\ improved
       /\ iterations < MAX_ITERATIONS
       /\ elapsed' < TIME_LIMIT_MS]_vars

\* C20 (pass start condition), amended: a pass starts only when the pass
\* before it accepted a swap or it is the first pass, iterations is below
\* MAX_ITERATIONS, and the time elapsed since generation started, as read at
\* the start of the pass, is at most TIME_LIMIT_MS.
C20_PassStartWithinLimit ==
  [][StartsPass =>
       /\ improved
       /\ iterations < MAX_ITERATIONS
       /\ elapsed' <= TIME_LIMIT_MS]_vars

\* a second pass under way that started with exactly TIME_LIMIT_MS elapsed
C20_Witness ==
  /\ pc = "scan"
  /\ iterations = 2
  /\ elapsed = TIME_LIMIT_MS
  /\ teams # before

\* the length of the longest roster
MaxSlots(ts) == SeqMax([t \in 1..Len(ts) |-> Len(ts[t].players)])

\* every <<i, j, playerIndex1, playerIndex2>> with i < j and a slot at each
\* position
AllPositions(ts) ==
  { q \in (1..Len(ts)) \X (1..Len(ts)) \X (1..MaxSlots(ts)) \X (1..MaxSlots(ts)) :
      /\ q[1] < q[2]
      /\ q[3] <= Len(ts[q[1]].players)
      /\ q[4] <= Len(ts[q[2]].players) }

\* the order of the four nested loops
PositionBefore(a, b) ==
  \/ a[1] < b[1]
  \/ a[1] = b[1] /\ a[2] < b[2]
  \/ a[1] = b[1] /\ a[2] = b[2] /\ a[3] < b[3]
  \/ a[1] = b[1] /\ a[2] = b[2] /\ a[3] = b[3] /\ a[4] < b[4]

\* the first of a set of positions in loop order, <<>> when there is none
FirstPosition(S) ==
  IF S = {} THEN <<>> ELSE CHOOSE q \in S : \A r \in S \ {q} : PositionBefore(q, r)

\* the number of roster positions whose slot is not the one it was
PositionsChanged(ts, was) ==
  Cardinality({ q \in (1..Len(ts)) \X (1..MaxSlots(ts)) :
                  /\ q[2] <= Len(ts[q[1]].players)
                  /\ q[2] <= Len(was[q[1]].players)
                  /\ ts[q[1]].players[q[2]].playerId # was[q[1]].players[q[2]].playerId })

\* C21 (full scan per pass): a pass starts at the first position of the four
\* loops; every trial step moves to the next position in loop order and ends
\* the pass only when there is none left, whether or not it accepted a swap and
\* without looking at the clock or the limits; at a position of two unlocked
\* slots the teams stay as they were only if the exchange does not lower the
\* spread; iterations changes at the start of a pass only, by one.
C21_FullScan ==
  [][/\ StartsPass => scan' = FirstPosition(AllPositions(teams))
     /\ pc = "scan" =>
          /\ iterations' = iterations
          /\ elapsed' = elapsed
          /\ scan' = FirstPosition({ q \in AllPositions(teams) : PositionBefore(scan, q) })
          /\ pc' = (IF scan' = <<>> THEN "guard" ELSE "scan")
          /\ (/\ ~teams[scan[1]].players[scan[3]].isLocked
              /\ ~teams[scan[2]].players[scan[4]].isLocked
              /\ teams' = teams) =>
               SpreadAfterExchange(teams, weights, scan[1], scan[2], scan[3], scan[4])
                 >= bestScoreDifference]_vars

\* the first pass has accepted two swaps
C21_Witness ==
  /\ InOptimizer
  /\ iterations = 1
  /\ PositionsChanged(teams, before) >= 3

\* the team, counted from 0, of the k-th player of the draft, k from 0
SnakeTeam(k, n) ==
  IF (k \div n) % 2 = 0 THEN k % n ELSE n - 1 - (k % n)

\* the ids of a sequence of records with a field f
IdsOf(s, f) == [m \in 1..Len(s) |-> s[m][f]]

\* the ids of the players of the sorted list that the snake order gives to
\* team t (counted from 1) of n, in the order of the list
SnakeRoster(sorted, t, n) ==
  LET turns == SelectSeq([k \in 1..Len(sorted) |-> k - 1],
                         LAMBDA k : SnakeTeam(k, n) = t - 1)
  IN [m \in 1..Len(turns) |-> sorted[turns[m] + 1].id]

\* the list holds the available players by descending score, equal scores in
\* the order of the input (a player's id is its place in the input)
DescendingStable(sorted, input, w) ==
  /\ Len(sorted) = Len(SelectSeq(input, IsAvailable))
  /\ \A m \in 1..Len(sorted) :
       /\ sorted[m].id \in 1..Len(input)
       /\ IsAvailable(input[sorted[m].id])
       /\ sorted[m].totalScore = calculatePlayerScore(input[sorted[m].id], w)
  /\ \A a \in 1..Len(sorted), b \in 1..Len(sorted) :
       a < b => \/ sorted[a].totalScore > sorted[b].totalScore
                \/ /\ sorted[a].totalScore = sorted[b].totalScore
                   /\ sorted[a].id < sorted[b].id

\* C22 (snake-draft order): with the default target size the draft works on
\* the available players by descending score, equal scores in input order,
\* and when it ends each team's roster is, in order, the players whose place k
\* in that list has SnakeTeam(k, N) equal to the team's index.
C22_SnakeOrder ==
  (pc = "scored" /\ playersPerTeam = 0) =>
    /\ DescendingStable(playersWithScores, players, weights)
    /\ \A t \in 1..Len(teams) :
         IdsOf(teams[t].players, "playerId") =
           SnakeRoster(playersWithScores, t, Len(teams))

\* a draft of five players into two teams, with two of equal score that the
\* input lists after a lower one
C22_Witness ==
  /\ pc = "scored"
  /\ playersPerTeam = 0
  /\ Len(teams) = 2
  /\ Len(playersWithScores) = 5
  /\ playersWithScores[1].totalScore = playersWithScores[2].totalScore
  /\ playersWithScores[1].id > 1
  /\ playersWithScores[5].id = 1

\* the slot scores of every roster, in hundredths
RosterScores(ts) ==
  [t \in 1..Len(ts) |-> [m \in 1..Len(ts[t].players) |-> ts[t].players[m].totalScore]]

\* Team0 = [10, 7, 6] (23), Team1 = [9, 8, 5] (22), spread 1
ExampleTeams(ts) ==
  /\ RosterScores(ts) = << <<1000, 700, 600>>, <<900, 800, 500>> >>
  /\ ts[1].totalScore = 2300
  /\ ts[2].totalScore = 2200
  /\ calculateTotalScoreDifference(ts) = 100

\* C23 (worked example), as claimed: the draft gives Team0 = [10, 7, 6] and
\* Team1 = [9, 8, 5] with spread 1, the optimizer changes nothing, and
\* generateTeams returns these teams with iterations = 1.
C23_WorkedExample ==
  /\ pc \in {"scored", "guard", "scan", "optimized", "returned"} => ExampleTeams(teams)
  /\ pc = "returned" =>
       /\ ExampleTeams(result.value.teams)
       /\ result.value.iterations = 1

\* C23 (worked example), amended: the draft gives Team0 = [10, 7, 6] and
\* Team1 = [9, 8, 5] with spread 1, the optimizer changes nothing, and
\* generateTeams returns these teams with iterations = 1, or with
\* iterations = 0 when the clock had passed TIME_LIMIT_MS before the first pass.
C23_WorkedExampleByClock ==
  /\ pc \in {"scored", "guard", "scan", "optimized", "returned"} => ExampleTeams(teams)
  /\ pc = "returned" =>
       /\ ExampleTeams(result.value.teams)
       /\ result.value.iterations = (IF elapsed > TIME_LIMIT_MS THEN 0 ELSE 1)

\* the example returned after one pass, from an input that lists the players
\* from the lowest score up
C23_Witness ==
  /\ pc = "returned"
  /\ result.value.iterations = 1
  /\ \A n \in 1..Len(players) : players[n].serve = 4 + n
  /\ ExampleTeams(result.value.teams)

\* C24 (more teams than players): a generateTeams call with more teams than
\* available players, at least one, does not throw and returns; once the draft
\* is over every available player is on a team and no team has more than one
\* player, and every empty team of the result has totalScore 0 and every
\* skill average 0.
C24_SpareTeams ==
  /\ [](pc # "threw")
  /\ [](pc \in {"scored", "guard", "scan", "optimized", "returned"} =>
          /\ SameIds(teams, players)
          /\ \A t \in 1..Len(teams) : Len(teams[t].players) <= 1)
  /\ [](pc = "returned" =>
          /\ Len(result.value.teams) = numberOfTeams
          /\ \A t \in 1..numberOfTeams :
               Len(result.value.teams[t].players) = 0 =>
                 /\ result.value.teams[t].totalScore = 0
                 /\ \A k \in SkillNames : result.value.teams[t].skillAverages[k][1] = 0)
  /\ (pc = "call") ~> (pc = "returned")

\* two players on four teams, two teams left empty
C24_Witness ==
  /\ pc = "returned"
  /\ numberOfTeams = 4
  /\ Len(Flatten(result.value.teams)) = 2
  /\ Len(result.value.teams[3].players) = 0
  /\ Len(result.value.teams[4].players) = 0

\* every selected player is on exactly one team, once, and nobody else is
EachSelectedOnce(ts, selected) ==
  /\ Len(Flatten(ts)) = Len(selected)
  /\ \A n \in 1..Len(selected) :
       Cardinality({ m \in 1..Len(Flatten(ts)) :
                       Flatten(ts)[m].playerId = selected[n].id }) = 1

\* the assignments a row of players can be built into, one per order
Assignments(rows) ==
  { ScoredTeams(built, skillWeights[1]) :
      built \in { BuiltTeams(row, numberOfTeams) : row \in rows } }

\* the assignments a randomized attempt can build
AttemptOutcomes ==
  Assignments({ Shuffled(players, f) : f \in Orders(Len(players)) })

\* the assignments the forced rotation can build
ForcedOutcomes ==
  Assignments({ RotateRight(players, k) : k \in RotationAmounts(Len(players)) })

\* C25 (reshuffle is a bounded retry with fallback): a handleReshuffle call
\* ends; it counts at most maxAttempts attempts; each step of it either
\* drops an attempt that fails the difference guard and counts it, or installs
\* an attempt that passes the guard, or, exactly when maxAttempts attempts
\* were dropped, installs the forced rotation; what it installs holds every
\* selected player exactly once.
C25_BoundedRetry ==
  /\ [](attempts <= maxAttempts)
  /\ [][pc = "reshuffling" =>
          /\ \/ /\ pc' = "reshuffling"
                /\ attempts < maxAttempts
                /\ attempts' = attempts + 1
                /\ teams' = teams
                /\ \E new \in AttemptOutcomes : ~SignificantlyDifferent(teams, new)
             \/ /\ pc' = "shown"
                /\ lastReshuffleInfo' = "reshuffled"
                /\ attempts < maxAttempts
                /\ teams' \in AttemptOutcomes
                /\ Len(teams') = Len(teams)
                /\ totalPlayerMoves(teams, teams') >= 2
             \/ /\ pc' = "shown"
                /\ lastReshuffleInfo' = "forced"
                /\ attempts = maxAttempts
                /\ teams' \in ForcedOutcomes
          /\ pc' = "shown" => EachSelectedOnce(teams', players)]_vars
  /\ (pc = "reshuffling") ~> (pc = "shown")

\* the forced rotation was installed after maxAttempts dropped attempts
C25_Witness ==
  /\ pc = "shown"
  /\ lastReshuffleInfo = "forced"
  /\ attempts = maxAttempts
  /\ EachSelectedOnce(teams, players)

\* C26 (forced reshuffle ensures a difference): whenever handleReshuffle
\* installs the forced rotation, at least one player is on a different team,
\* by team index, than in the assignment shown before.
C26_ForcedDiffers ==
  [][(pc = "reshuffling" /\ lastReshuffleInfo' = "forced")
       => MovedPlayers(teams, teams') # {}]_vars

\* the player's slot is locked
LockedIn(ts, playerId) ==
  \E t \in 1..Len(ts) : \E n \in 1..Len(ts[t].players) :
    ts[t].players[n].playerId = playerId /\ ts[t].players[n].isLocked

\* C27 (lock persistence across operations): over every sequence of
\* lockPlayer, swapPlayers and optimizer steps, a player changes team only in a
\* step before which its slot is not locked; a successful lockPlayer(p, true)
\* leaves p locked, only lockPlayer(p, false) unlocks p, and every swapPlayers
\* call for p while p is locked returns false and changes nothing.
C27_LockPersists ==
  [][\A p \in 1..Len(players) :
       /\ TeamOf(teams, p) # TeamOf(teams', p) => ~LockedIn(teams, p)
       /\ (HeldBySomeTeam(teams, p) /\ LockPlayer(p, TRUE)) => LockedIn(teams', p)
       /\ (LockedIn(teams, p) /\ ~LockedIn(teams', p)) => LockPlayer(p, FALSE)
       /\ LockedIn(teams, p) =>
            \A from \in TeamIndexArgs, to \in TeamIndexArgs :
              SwapPlayers(p, from, to) => (result'.value = FALSE /\ teams' = teams)]_vars

\* with a player locked and a swapPlayers call refused, the optimizer has
\* exchanged other players
C27_Witness ==
  /\ pc = "optimized"
  /\ result = [op |-> "swapPlayers", value |-> FALSE]
  /\ \E p \in 1..Len(players) : LockedIn(before, p) /\ LockedIn(teams, p)
  /\ \E p \in 1..Len(players) : TeamOf(teams, p) # TeamOf(before, p)

\* C28 (move round trip): whenever swapPlayers(p, A, B) and then
\* swapPlayers(p, B, A) both return true, every team has the members, the
\* totalScore and the skillAverages it had before the first call.
C28_MoveRoundTrip ==
  pc = "idle" =>
    \A p \in PlayerIdArgs, A \in TeamIndexArgs, B \in TeamIndexArgs :
      LET there == swapPlayers(teams, p, A, B, weights)
          back == swapPlayers(there[2], p, B, A, weights)
      IN (there[1] /\ back[1]) =>
           \A t \in 1..Len(teams) :
             /\ PlayerIds(back[2][t]) = PlayerIds(teams[t])
             /\ back[2][t].totalScore = teams[t].totalScore
             /\ back[2][t].skillAverages = teams[t].skillAverages

C30_SizesKept ==
  InOptimizer =>
    /\ Len(teams) = Len(before)
    /\ \A t \in 1..Len(before) :
         /\ Len(teams[t].players) = Len(before[t].players)
         /\ (before[t].players = <<>>) => (teams[t] = before[t])

\* the optimizer is back having kept a swap between two teams of different
\* sizes, with a third team empty and the spread still above zero
C30_Witness ==
  /\ pc = "optimized"
  /\ teams # before
  /\ bestScoreDifference > 0
  /\ \E t \in 1..Len(before) : before[t].players = <<>> /\ teams[t].players = <<>>
  /\ \E t \in 1..Len(before) : \E u \in 1..Len(before) :
       /\ Len(before[t].players) > Len(before[u].players)
       /\ Len(before[u].players) > 0
       /\ PlayerIds(teams[t]) # PlayerIds(before[t])
       /\ PlayerIds(teams[u]) # PlayerIds(before[u])

====
